---- MODULE Spec2Model ----
(***************************************************************************)
(* Model of gpuinfo: GPUInfo construction (NVML device query), the         *)
(* get_gpu_stats query and the free_up_gpu reclamation workflow            *)
(* (_terminate_gpu_processes followed by _clear_gpu_cache).                *)
(*                                                                         *)
(* External facilities (NVML driver, nvidia-smi, psutil, torch) are the    *)
(* environment: each call to them nondeterministically succeeds or fails   *)
(* with one of the exceptions the facility can raise.                      *)
(***************************************************************************)
EXTENDS Integers, Sequences, FiniteSets, TLC

\* ---------------------------------------------------------------- bounds
MaxGpus == 2        \* largest device count the driver reports
MaxLines == 2       \* largest number of lines nvidia-smi prints

\* ---------------------------------------------------------- environment
\* Processes that may hold a compute context, with the name psutil reports.
Pids == {101, 102}

ProcName(p) == IF p = 101 THEN "warp-terminal" ELSE "Warp-Terminal"

\* One line of nvidia-smi output: a pid, a blank line, or a non-numeric value.
Tokens == {"101", "102", "", "[N/A]"}

IsNumeric(tok) == tok \in {"101", "102"}

\* int(pid): defined on numeric tokens only, ValueError otherwise.
IntOf(tok) == IF tok = "101" THEN 101 ELSE 102

RawOutputs == UNION {[1..n -> Tokens] : n \in 0..MaxLines}

\* ------------------------------------------------------------- constants
DEFAULT_EXEMPT_PROCESSES == <<"/usr/lib/xorg/Xorg", "/usr/bin/gnome-shell", "warp-terminal">>

\* The lists a caller passes: the default, or an explicitly empty one.
ExemptChoices == {DEFAULT_EXEMPT_PROCESSES, <<>>}

\* The five torch calls of _clear_gpu_cache, in order.
CacheOps == <<"empty_cache", "device.empty_cache", "reset_peak_memory_stats",
              "reset_max_memory_allocated", "reset_max_memory_cached">>

VARIABLES
    gpu_count, gpus, torch_available, torch_cuda_available,   \* GPUInfo fields
    sessions,        \* NVML reference count: open driver sessions
    inits,           \* successful nvmlInit calls of the current call
    shutdowns,       \* successful nvmlShutdown calls of the current call
    readOutside,     \* a driver counter was read with no session open
    pc,              \* position of the single thread of control
    call,            \* the public operation in progress / last finished
    ret,             \* how it ended: "none" while running
    caller,          \* who called get_gpu_stats: "init" or "api"
    i, gpu_stats,    \* locals of get_gpu_stats
    pending,         \* exception propagating through a finally block
    gpu_index, terminate_processes, clear_cache, exempt_processes, \* arguments
    pids, k,         \* split output and loop position of the reaper
    cur,             \* the process being handled
    gone,            \* processes that have exited
    outcomes,        \* per-pid messages printed by the reaper
    effects,         \* external calls issued by free_up_gpu, in order
    invoked,         \* private methods free_up_gpu has called
    cacheOutcome,    \* message printed by _clear_gpu_cache
    cstep            \* next torch call of _clear_gpu_cache

objVars == <<gpu_count, gpus, torch_available, torch_cuda_available>>
drvVars == <<sessions, inits, shutdowns, readOutside>>
statVars == <<caller, i, gpu_stats, pending>>
argVars == <<gpu_index, terminate_processes, clear_cache, exempt_processes>>
reapVars == <<pids, k, cur, gone, outcomes>>
cacheVars == <<cacheOutcome, cstep>>

vars == <<gpu_count, gpus, torch_available, torch_cuda_available,
          sessions, inits, shutdowns, readOutside, pc, call, ret,
          caller, i, gpu_stats, pending,
          gpu_index, terminate_processes, clear_cache, exempt_processes,
          pids, k, cur, gone, outcomes, effects, invoked, cacheOutcome, cstep>>

NoProc == [pid |-> 0, name |-> "none", sent |-> "no"]

\* ------------------------------------------------------------ pure parts
\* the index check with > in place of >= : an index equal to the count passes
InvalidIndex_OffByOne(idx, count) == idx < 0 \/ idx > count

\* gpu_index < 0 or gpu_index >= self.gpu_count
InvalidIndex(idx, count) == idx < 0 \/ idx >= count

\* the availability test without the CUDA flag
CacheAvailable_TorchOnly(ta, tca) == ta

\* self.torch_available and self.torch_cuda_available
CacheAvailable(ta, tca) == ta /\ tca

\* process.name() in exempt_processes : list membership by string equality
InExempt(name, list) == \E j \in 1..Len(list) : list[j] = name

RECURSIVE LStrip(_)
LStrip(s) == IF s # <<>> /\ Head(s) = "" THEN LStrip(Tail(s)) ELSE s

RECURSIVE RStrip(_)
RStrip(s) == IF s # <<>> /\ s[Len(s)] = "" THEN RStrip(SubSeq(s, 1, Len(s) - 1)) ELSE s

\* result.stdout.strip().split('\n') on the printed lines: leading and
\* trailing blank lines are removed; an empty output splits into [''].
StripSplit(lines) ==
    LET s == RStrip(LStrip(lines)) IN IF s = <<>> THEN <<"">> ELSE s

\* State after GPUInfo's field defaults (super().__init__), before
\* initialize_gpu_info runs.
Init ==
    /\ gpu_count = 0
    /\ gpus = <<>>
    /\ torch_available = FALSE
    /\ torch_cuda_available = FALSE
    /\ sessions = 0
    /\ inits = 0
    /\ shutdowns = 0
    /\ readOutside = FALSE
    /\ pc = "I_init"
    /\ call = "construct"
    /\ ret = "none"
    /\ caller = "init"
    /\ i = 0
    /\ gpu_stats = <<>>
    /\ pending = "none"
    /\ gpu_index = 0
    /\ terminate_processes = TRUE
    /\ clear_cache = TRUE
    /\ exempt_processes = DEFAULT_EXEMPT_PROCESSES
    /\ pids = <<>>
    /\ k = 1
    /\ cur = NoProc
    /\ gone = {}
    /\ outcomes = <<>>
    /\ effects = <<>>
    /\ invoked = {}
    /\ cacheOutcome = "none"
    /\ cstep = 1

freeVars == <<gpu_index, terminate_processes, clear_cache, exempt_processes,
              pids, k, cur, gone, outcomes, effects, invoked, cacheOutcome, cstep>>

\* ------------------------------------------------- initialize_gpu_info
\* pynvml.nvmlInit()
InitNvmlInit ==
    /\ pc = "I_init"
    /\ \/ /\ sessions' = sessions + 1
          /\ inits' = inits + 1
          /\ pc' = "I_count"
       \/ /\ pc' = "I_finally"          \* NVMLError: driver absent
          /\ UNCHANGED <<sessions, inits>>
    /\ UNCHANGED <<objVars, shutdowns, readOutside, call, ret, statVars, freeVars>>

\* self.gpu_count = pynvml.nvmlDeviceGetCount(); self.get_gpu_stats() is entered
InitGetCount ==
    /\ pc = "I_count"
    /\ readOutside' = (readOutside \/ sessions = 0)
    /\ \/ \E n \in 0..MaxGpus :
            /\ gpu_count' = n
            /\ caller' = "init"
            /\ pc' = "G_init"
       \/ /\ pc' = "I_finally"          \* NVMLError from the count query
          /\ UNCHANGED <<gpu_count, caller>>
    /\ UNCHANGED <<gpus, torch_available, torch_cuda_available, sessions, inits,
                   shutdowns, call, ret, i, gpu_stats, pending, freeVars>>

\* finally: nvmlShutdown() with every error swallowed
InitFinally ==
    /\ pc = "I_finally"
    /\ IF sessions > 0
       THEN sessions' = sessions - 1 /\ shutdowns' = shutdowns + 1
       ELSE UNCHANGED <<sessions, shutdowns>>
    /\ pending' = "none"
    /\ pc' = "I_torch"
    /\ UNCHANGED <<objVars, inits, readOutside, call, ret, caller, i, gpu_stats, freeVars>>

\* check_torch_availability
CheckTorchAvailability ==
    /\ pc = "I_torch"
    /\ \/ UNCHANGED <<torch_available, torch_cuda_available>>   \* find_spec is None
       \/ /\ torch_available' = TRUE
          /\ torch_cuda_available' \in BOOLEAN
    /\ pc' = "idle"
    /\ ret' = "returned"
    /\ UNCHANGED <<gpu_count, gpus, drvVars, call, statVars, freeVars>>

\* ------------------------------------------------------- get_gpu_stats
\* public call of get_gpu_stats on a constructed object
CallGetGpuStats ==
    /\ pc = "idle"
    /\ call' = "get_gpu_stats"
    /\ ret' = "none"
    /\ caller' = "api"
    /\ inits' = 0
    /\ shutdowns' = 0
    /\ pc' = "G_init"
    /\ gpu_index' = 0
    /\ terminate_processes' = TRUE
    /\ clear_cache' = TRUE
    /\ exempt_processes' = DEFAULT_EXEMPT_PROCESSES
    /\ pids' = <<>>
    /\ k' = 1
    /\ cur' = NoProc
    /\ gone' = {}
    /\ outcomes' = <<>>
    /\ effects' = <<>>
    /\ invoked' = {}
    /\ cacheOutcome' = "none"
    /\ cstep' = 1
    /\ UNCHANGED <<objVars, sessions, readOutside, i, gpu_stats, pending>>

\* gpu_stats = []; try: pynvml.nvmlInit()
GetStatsInit ==
    /\ pc = "G_init"
    /\ gpu_stats' = <<>>
    /\ i' = 0
    /\ \/ /\ sessions' = sessions + 1
          /\ inits' = inits + 1
          /\ pending' = "none"
          /\ pc' = "G_loop"
       \/ /\ pending' = "NVMLError"
          /\ pc' = "G_finally"
          /\ UNCHANGED <<sessions, inits>>
    /\ UNCHANGED <<objVars, shutdowns, readOutside, call, ret, caller, freeVars>>

\* one iteration of for i in range(self.gpu_count): the handle, name, memory,
\* utilization and temperature queries (any may raise), the fan query (its
\* error is swallowed), and the append
GetStatsLoop ==
    /\ pc = "G_loop"
    /\ IF i < gpu_count
       THEN /\ readOutside' = (readOutside \/ sessions = 0)
            /\ \/ /\ gpu_stats' = Append(gpu_stats, [index |-> i])
                  /\ i' = i + 1
                  /\ UNCHANGED <<pending, pc>>
               \/ /\ pending' = "NVMLError"
                  /\ pc' = "G_finally"
                  /\ UNCHANGED <<gpu_stats, i>>
       ELSE /\ pc' = "G_finally"
            /\ UNCHANGED <<readOutside, gpu_stats, i, pending>>
    /\ UNCHANGED <<objVars, sessions, inits, shutdowns, call, ret, caller, freeVars>>

\* finally: nvmlShutdown() on the success path only (the shutdown written at
\* the end of the try body instead of in the finally block)
GetStatsFinally_OnSuccessOnly ==
    /\ pc = "G_finally"
    /\ IF sessions > 0 /\ pending = "none"
       THEN sessions' = sessions - 1 /\ shutdowns' = shutdowns + 1
       ELSE UNCHANGED <<sessions, shutdowns>>
    /\ IF caller = "init"
       THEN /\ gpus' = IF pending = "none" THEN gpu_stats ELSE gpus
            /\ pc' = "I_finally"
            /\ UNCHANGED <<ret, pending>>
       ELSE /\ ret' = IF pending = "none" THEN "returned" ELSE pending
            /\ pending' = "none"
            /\ pc' = "idle"
            /\ UNCHANGED gpus
    /\ UNCHANGED <<gpu_count, torch_available, torch_cuda_available, inits,
                   readOutside, call, caller, i, gpu_stats, freeVars>>

\* finally: nvmlShutdown() with every error swallowed; then return gpu_stats
\* or let the pending NVMLError propagate to the caller
GetStatsFinally ==
    /\ pc = "G_finally"
    /\ IF sessions > 0
       THEN sessions' = sessions - 1 /\ shutdowns' = shutdowns + 1
       ELSE UNCHANGED <<sessions, shutdowns>>
    /\ IF caller = "init"
       THEN /\ gpus' = IF pending = "none" THEN gpu_stats ELSE gpus
            /\ pc' = "I_finally"
            /\ UNCHANGED <<ret, pending>>
       ELSE /\ ret' = IF pending = "none" THEN "returned" ELSE pending
            /\ pending' = "none"
            /\ pc' = "idle"
            /\ UNCHANGED gpus
    /\ UNCHANGED <<gpu_count, torch_available, torch_cuda_available, inits,
                   readOutside, call, caller, i, gpu_stats, freeVars>>

\* --------------------------------------------------------- free_up_gpu
ReaperPcs == {"R_enum", "R_next", "R_term", "R_report_term", "R_report_skip"}

\* free_up_gpu(gpu_index, terminate_processes, clear_cache, exempt_processes):
\* the index check, then the decision to call _terminate_gpu_processes
CallFreeUpGpu ==
    /\ pc = "idle"
    /\ \E idx \in -1..MaxGpus, tp \in BOOLEAN, cc \in BOOLEAN, ex \in ExemptChoices :
        /\ gpu_index' = idx
        /\ terminate_processes' = tp
        /\ clear_cache' = cc
        /\ exempt_processes' = ex
        /\ IF InvalidIndex(idx, gpu_count)
           THEN /\ ret' = "InvalidGPUIndex"      \* raise ValueError
                /\ pc' = "idle"
                /\ invoked' = {}
           ELSE /\ ret' = "none"
                /\ pc' = IF tp THEN "R_enum" ELSE "F_clear"
                /\ invoked' = IF tp THEN {"_terminate_gpu_processes"} ELSE {}
    /\ call' = "free_up_gpu"
    /\ inits' = 0
    /\ shutdowns' = 0
    /\ i' = 0
    /\ gpu_stats' = <<>>
    /\ pids' = <<>>
    /\ k' = 1
    /\ cur' = NoProc
    /\ gone' = {}
    /\ outcomes' = <<>>
    /\ effects' = <<>>
    /\ cacheOutcome' = "none"
    /\ cstep' = 1
    /\ UNCHANGED <<objVars, sessions, readOutside, caller, pending>>

\* subprocess.run(['nvidia-smi', ...], check=True); stdout.strip().split('\n')
ReaperEnumerate ==
    /\ pc = "R_enum"
    /\ effects' = Append(effects, "enum")
    /\ \/ \E raw \in RawOutputs :
            /\ pids' = StripSplit(raw)
            /\ pc' = "R_next"
            /\ UNCHANGED ret
       \/ /\ pc' = "F_clear"                 \* CalledProcessError, caught
          /\ UNCHANGED <<pids, ret>>
       \/ /\ ret' = "FileNotFoundError"      \* command missing, not caught
          /\ pc' = "idle"
          /\ UNCHANGED pids
    /\ UNCHANGED <<objVars, drvVars, call, statVars, argVars, k, cur, gone,
                   outcomes, invoked, cacheVars>>

Outcome(p, res) == [pid |-> p.pid, result |-> res, name |-> p.name, sent |-> p.sent]

\* for pid in pids: if pid: psutil.Process(int(pid)); process.name() not in
\* exempt_processes
ReaperNext ==
    /\ pc = "R_next"
    /\ IF k > Len(pids)
       THEN /\ pc' = "F_clear"
            /\ gone' = {}
            /\ UNCHANGED <<k, cur, outcomes, effects, ret>>
       ELSE IF pids[k] = ""
       THEN /\ k' = k + 1
            /\ UNCHANGED <<pc, cur, gone, outcomes, effects, ret>>
       ELSE IF ~IsNumeric(pids[k])
       THEN /\ ret' = "ValueError"           \* int(pid), not caught
            /\ pc' = "idle"
            /\ gone' = {}
            /\ UNCHANGED <<k, cur, outcomes, effects>>
       ELSE LET p == IntOf(pids[k]) IN
            /\ effects' = Append(effects, "resolve")
            /\ UNCHANGED <<gone, ret>>
            /\ IF p \in gone
               THEN /\ outcomes' = Append(outcomes,          \* NoSuchProcess
                          Outcome([pid |-> p, name |-> "none", sent |-> "no"], "NotFound"))
                    /\ k' = k + 1
                    /\ UNCHANGED <<pc, cur>>
               ELSE /\ cur' = [pid |-> p, name |-> ProcName(p), sent |-> "no"]
                    /\ pc' = IF InExempt(ProcName(p), exempt_processes)
                             THEN "R_report_skip" ELSE "R_term"
                    /\ UNCHANGED <<k, outcomes>>
    /\ UNCHANGED <<objVars, drvVars, call, statVars, argVars, pids, invoked, cacheVars>>

\* process.terminate()
ReaperTerminate ==
    /\ pc = "R_term"
    /\ effects' = Append(effects, "terminate")
    /\ IF cur.pid \in gone
       THEN /\ outcomes' = Append(outcomes,                  \* NoSuchProcess
                  Outcome([cur EXCEPT !.sent = "gone"], "NotFound"))
            /\ k' = k + 1
            /\ cur' = NoProc
            /\ pc' = "R_next"
       ELSE \/ /\ cur' = [cur EXCEPT !.sent = "accepted"]
               /\ pc' = "R_report_term"
               /\ UNCHANGED <<outcomes, k>>
            \/ /\ outcomes' = Append(outcomes,               \* AccessDenied
                     Outcome([cur EXCEPT !.sent = "refused"], "PermissionDenied"))
               /\ k' = k + 1
               /\ cur' = NoProc
               /\ pc' = "R_next"
    /\ UNCHANGED <<objVars, drvVars, call, ret, statVars, argVars, pids, gone,
                   invoked, cacheVars>>

\* print(f"Terminated process {pid} ({process.name()})")
ReaperReportTerminated ==
    /\ pc = "R_report_term"
    /\ outcomes' = Append(outcomes,
           Outcome(cur, IF cur.pid \in gone THEN "NotFound" ELSE "Terminated"))
    /\ k' = k + 1
    /\ cur' = NoProc
    /\ pc' = "R_next"
    /\ UNCHANGED <<objVars, drvVars, call, ret, statVars, argVars, pids, gone,
                   effects, invoked, cacheVars>>

\* print(f"Skipped termination of exempt process {pid} ({process.name()})")
ReaperReportSkipped ==
    /\ pc = "R_report_skip"
    /\ outcomes' = Append(outcomes,
           Outcome(cur, IF cur.pid \in gone THEN "NotFound" ELSE "Skipped"))
    /\ k' = k + 1
    /\ cur' = NoProc
    /\ pc' = "R_next"
    /\ UNCHANGED <<objVars, drvVars, call, ret, statVars, argVars, pids, gone,
                   effects, invoked, cacheVars>>

\* environment: the enumerated process the reaper is about to resolve, or is
\* handling, exits (an exit of a later pid commutes with every step before
\* that pid is resolved, so it is taken just before its turn)
ProcExit ==
    /\ pc \in ReaperPcs \ {"R_enum"}
    /\ \E p \in Pids \ gone :
        /\ IF pc = "R_next"
           THEN k <= Len(pids) /\ IsNumeric(pids[k]) /\ IntOf(pids[k]) = p
           ELSE cur.pid = p
        /\ gone' = gone \cup {p}
    /\ UNCHANGED <<objVars, drvVars, pc, call, ret, statVars, argVars, pids, k,
                   cur, outcomes, effects, invoked, cacheVars>>

\* if clear_cache: self._clear_gpu_cache(gpu_index)
FreeUpClear ==
    /\ pc = "F_clear"
    /\ IF clear_cache
       THEN pc' = "C_check" /\ invoked' = invoked \cup {"_clear_gpu_cache"}
       ELSE pc' = "F_end" /\ UNCHANGED invoked
    /\ UNCHANGED <<objVars, drvVars, call, ret, statVars, argVars, reapVars,
                   effects, cacheVars>>

\* if self.torch_available and self.torch_cuda_available:
\*     if torch.cuda.is_available(): ... else: print("... Unable to clear GPU cache.")
ClearCacheCheck ==
    /\ pc = "C_check"
    /\ IF CacheAvailable(torch_available, torch_cuda_available)
       THEN /\ \/ pc' = "C_ops"              \* torch.cuda.is_available() now
               \/ pc' = "F_end"              \* not available now: nothing printed
            /\ UNCHANGED cacheOutcome
       ELSE /\ cacheOutcome' = "Unavailable"
            /\ pc' = "F_end"
    /\ UNCHANGED <<objVars, drvVars, call, ret, statVars, argVars, reapVars,
                   effects, invoked, cstep>>

\* one torch call of the try block; only RuntimeError is caught
ClearCacheOp ==
    /\ pc = "C_ops"
    /\ effects' = Append(effects, CacheOps[cstep])
    /\ \/ /\ cacheOutcome' = IF cstep = Len(CacheOps) THEN "Reset"
                             ELSE IF cstep = 1 THEN "Cleared" ELSE cacheOutcome
          /\ pc' = IF cstep = Len(CacheOps) THEN "F_end" ELSE "C_ops"
          /\ cstep' = IF cstep = Len(CacheOps) THEN 1 ELSE cstep + 1
          /\ UNCHANGED ret
       \/ /\ cacheOutcome' = "ReclaimFailed"  \* RuntimeError, caught
          /\ pc' = "F_end"
          /\ cstep' = 1
          /\ UNCHANGED ret
       \/ /\ ret' = "UncaughtCacheError"      \* any other exception propagates
          /\ pc' = "idle"
          /\ cstep' = 1
          /\ UNCHANGED cacheOutcome
    /\ UNCHANGED <<objVars, drvVars, call, statVars, argVars, reapVars, invoked>>

\* the closing prints; free_up_gpu returns
FreeUpEnd ==
    /\ pc = "F_end"
    /\ ret' = "returned"
    /\ pc' = "idle"
    /\ UNCHANGED <<objVars, drvVars, call, statVars, argVars, reapVars, effects,
                   invoked, cacheVars>>

Next ==
    \/ InitNvmlInit
    \/ InitGetCount
    \/ InitFinally
    \/ CheckTorchAvailability
    \/ CallGetGpuStats
    \/ GetStatsInit
    \/ GetStatsLoop
    \/ GetStatsFinally
    \/ CallFreeUpGpu
    \/ ReaperEnumerate
    \/ ReaperNext
    \/ ReaperTerminate
    \/ ReaperReportTerminated
    \/ ReaperReportSkipped
    \/ ProcExit
    \/ FreeUpClear
    \/ ClearCacheCheck
    \/ ClearCacheOp
    \/ FreeUpEnd

Spec == Init /\ [][Next]_vars

\* =============================================================== claims
IsCacheOp(e) == \E j \in 1..Len(CacheOps) : CacheOps[j] = e

PidTokens(toks) == SelectSeq(toks, IsNumeric)

\* C1: for every gpu_index that is negative or >= the device count,
\* free_up_gpu fails with the invalid-index error and has issued no process
\* enumeration, name resolution, termination request or cache operation, for
\* every combination of terminate_processes, clear_cache and exemption list.
C1_InvalidIndexRejected ==
    (call = "free_up_gpu" /\ (gpu_index < 0 \/ gpu_index >= gpu_count))
        => /\ pc = "idle"
           /\ ret = "InvalidGPUIndex"
           /\ effects = <<>>
           /\ invoked = {}
           /\ outcomes = <<>>
           /\ cacheOutcome = "none"

\* C1 witness: an index equal to a positive device count was rejected while
\* both the reaper and the cache step were requested.
C1_Witness ==
    /\ call = "free_up_gpu"
    /\ ret = "InvalidGPUIndex"
    /\ gpu_count > 0
    /\ gpu_index = gpu_count
    /\ terminate_processes
    /\ clear_cache
    /\ exempt_processes = <<>>

\* C2: for a valid gpu_index (of a device that has a snapshot), free_up_gpu
\* never raises: whatever the external facilities do, the call is still
\* running or has returned normally.
C2_ValidIndexNeverRaises ==
    (call = "free_up_gpu" /\ gpu_index >= 0 /\ gpu_index < gpu_count
     /\ gpu_count = Len(gpus))
        => ret \in {"none", "returned"}

\* C3: once the reaper is over, every pid the enumeration returned has
\* exactly one outcome, in discovery order: the outcomes are as many as the
\* discovered pids and the j-th outcome is about the j-th pid.
C3_OneOutcomePerPid ==
    (call = "free_up_gpu" /\ pc \notin ReaperPcs /\ gpu_count = Len(gpus))
        => /\ Len(outcomes) = Len(PidTokens(pids))
           /\ \A j \in 1..Len(outcomes) : outcomes[j].pid = IntOf(PidTokens(pids)[j])

\* C4: a process is reported Skipped if and only if the name resolved for it
\* is exactly a member of the exemption list, and a process whose name is in
\* the list never receives a termination request nor is reported Terminated.
C4_SkippedIffExempt ==
    (call = "free_up_gpu" /\ gpu_count = Len(gpus))
        => \A j \in 1..Len(outcomes) :
               LET o == outcomes[j] IN
               /\ (o.result = "Skipped")
                      <=> (o.name # "none" /\ InExempt(o.name, exempt_processes))
               /\ InExempt(o.name, exempt_processes)
                      => (o.sent = "no" /\ o.result # "Terminated")

\* C5: the reaper runs only if terminate_processes, the cache reclaimer only
\* if clear_cache, no reaper call is issued after the cache reclaimer started,
\* and a call with a valid index and clear_cache set does not end before the
\* cache reclaimer has run, also when the reaper met failures.
C5_ReaperThenCache ==
    (call = "free_up_gpu" /\ gpu_count = Len(gpus))
        => /\ ("_terminate_gpu_processes" \in invoked => terminate_processes)
           /\ ("_clear_gpu_cache" \in invoked => clear_cache)
           /\ ("_clear_gpu_cache" \in invoked => pc \notin ReaperPcs)
           /\ \A a, b \in 1..Len(effects) :
                  (a < b /\ IsCacheOp(effects[a])) => IsCacheOp(effects[b])
           /\ (pc = "idle" /\ ret # "InvalidGPUIndex" /\ clear_cache)
                  => "_clear_gpu_cache" \in invoked

C7_EmptyExemptionTerminatesAll ==
    (call = "free_up_gpu" /\ exempt_processes = <<>> /\ gpu_count = Len(gpus))
        => \A j \in 1..Len(outcomes) :
               LET o == outcomes[j] IN
               /\ o.result # "Skipped"
               /\ o.name # "none" => o.sent # "no"
               /\ o.sent \in {"accepted", "refused"}
                      => o.result \in {"Terminated", "PermissionDenied"}

\* C8: for each non-exempt pid the outcome matches what was done: an accepted
\* termination request is reported Terminated, PermissionDenied is reported
\* only for a refused request, and NotFound only for a pid to which no
\* termination request was delivered.
C8_OutcomeMatchesAction ==
    (call = "free_up_gpu" /\ gpu_count = Len(gpus))
        => \A j \in 1..Len(outcomes) :
               LET o == outcomes[j] IN
               ~InExempt(o.name, exempt_processes)
                   => /\ o.sent = "accepted" => o.result = "Terminated"
                      /\ o.result = "PermissionDenied" => o.sent = "refused"
                      /\ o.result = "NotFound" => o.sent \in {"no", "gone"}

\* C9: every device query brackets its driver calls: when the call has
\* returned or raised, successful inits equal successful shutdowns and no
\* driver session is open; no driver counter is ever read without a session.
C9_DriverSessionsBracketed ==
    /\ pc = "idle" => (sessions = 0 /\ inits = shutdowns)
    /\ ~readOutside

\* C9 witness: get_gpu_stats raised on a per-device query after one
\* successful init, and the session was shut down.
C9_Witness ==
    /\ call = "get_gpu_stats"
    /\ pc = "idle"
    /\ ret = "NVMLError"
    /\ inits = 1
    /\ shutdowns = 1
    /\ gpu_stats # <<>>

\* C10: after construction gpu_count equals the number of entries of gpus and
\* gpus[j].index = j for every j.
C10_CountMatchesSnapshots ==
    pc = "idle"
        => /\ gpu_count = Len(gpus)
           /\ \A j \in 1..Len(gpus) : gpus[j].index = j - 1

====
